---- MODULE Spec2Model ----
(***************************************************************************)
(* Model of the product availability monitor (src/monitor.py).             *)
(*                                                                         *)
(* One invocation of main() is a "run".  A run occupies a slot p \in Procs *)
(* and walks through main() statement group by statement group:            *)
(*   Start -> TestConnection -> Load -> Check -> Decide -> Save -> done    *)
(* or leaves through sys.exit(1) inside check_product_availability.        *)
(* Everything outside the script (SMTP relay, browser, file system,        *)
(* environment) is an input chosen with \E from small sets of outcomes.    *)
(***************************************************************************)
EXTENDS Integers, Sequences, FiniteSets, TLC

VARIABLES
    file,   \* status.json on disk: [exists, text]
    environ, \* os.environ: which of EMAIL_ADDRESS, EMAIL_PASSWORD are set
    run,    \* per slot: the locals of main() and its position, plus what this run did
    runs,   \* invocations started so far
    click   \* a stand-alone application of check_button_clickability

vars == <<file, environ, run, runs, click>>

----------------------------------------------------------------------------
(* Bounds *)

MaxRuns == 3         \* invocations of main() started one after another

\* slots for invocations of the script; two are enough for two overlapping runs
Procs == {1, 2}

----------------------------------------------------------------------------
(* The status mapping and its JSON text *)

ProductKey == "Lassi"

EmptyMap == [k \in {} |-> FALSE]

OneMap(b) == [k \in {ProductKey} |-> b]

StatusMaps == {EmptyMap, OneMap(FALSE), OneMap(TRUE)}

\* json.dump of a mapping with at most the key "Lassi"
json_dump(m) ==
    IF DOMAIN m = {} THEN "{}"
    ELSE "{\"Lassi\": " \o (IF m[ProductKey] THEN "true" ELSE "false") \o "}"

\* json.load: the texts this program can have written parse, anything else
\* (an empty or cut-off file) raises
json_load(text) ==
    IF text = "{}" THEN [ok |-> TRUE, value |-> EmptyMap]
    ELSE IF text = "{\"Lassi\": true}" THEN [ok |-> TRUE, value |-> OneMap(TRUE)]
    ELSE IF text = "{\"Lassi\": false}" THEN [ok |-> TRUE, value |-> OneMap(FALSE)]
    ELSE [ok |-> FALSE, value |-> EmptyMap]

NoFile == [exists |-> FALSE, text |-> ""]

\* what a failed write can leave of the text: nothing (the file was truncated
\* and the buffer never flushed) or the text cut off before its end
Prefixes(text) == {SubSeq(text, 1, n) : n \in {0, Len(text) - 1}}

\* load_previous_status(): read_ok = FALSE stands for open()/read raising
load_previous_status(f, read_ok) ==
    IF f.exists /\ read_ok /\ json_load(f.text).ok
    THEN json_load(f.text).value
    ELSE EmptyMap

SaveOutcomes == {"ok", "open_error", "write_error"}

\* faulty variant of save_status: reports success without writing anything
save_status_writes_nothing(f, status_data, outcome, partial) == f

\* save_status(status_data): the file after the call.  open(..., 'w') creates or
\* truncates the file; an exception at any point is swallowed.
save_status(f, status_data, outcome, partial) ==
    CASE outcome = "ok" -> [exists |-> TRUE, text |-> json_dump(status_data)]
      [] outcome = "open_error" -> f
      [] outcome = "write_error" -> [exists |-> TRUE, text |-> partial]

----------------------------------------------------------------------------
(* Mail *)

Envs == [from_email : BOOLEAN, password : BOOLEAN]

Handshakes == {"ok", "connect_error", "login_error"}

Transports == {"ok", "connect_error", "login_error", "send_error", "quit_error"}

\* test_gmail_connection(): success flag
test_gmail_connection(env, handshake) ==
    IF ~env.from_email \/ ~env.password THEN FALSE
    ELSE handshake = "ok"

\* send_email(subject, body): ok is the return value, reached counts the calls of
\* server.send_message this call made
send_email(env, transport) ==
    IF ~env.from_email \/ ~env.password THEN [ok |-> FALSE, reached |-> 0]
    ELSE CASE transport = "ok" -> [ok |-> TRUE, reached |-> 1]
           [] transport \in {"connect_error", "login_error"} -> [ok |-> FALSE, reached |-> 0]
           [] transport \in {"send_error", "quit_error"} -> [ok |-> FALSE, reached |-> 1]

----------------------------------------------------------------------------
(* check_button_clickability *)

UpperToLower ==
    ("A" :> "a") @@ ("B" :> "b") @@ ("C" :> "c") @@ ("D" :> "d") @@ ("E" :> "e") @@
    ("I" :> "i") @@ ("L" :> "l") @@ ("N" :> "n") @@ ("O" :> "o") @@ ("S" :> "s") @@
    ("T" :> "t") @@ ("U" :> "u") @@ ("V" :> "v")

LowerChar(c) == IF c \in DOMAIN UpperToLower THEN UpperToLower[c] ELSE c

RECURSIVE lower(_)
\* str.lower()
lower(s) == IF s = "" THEN "" ELSE LowerChar(SubSeq(s, 1, 1)) \o lower(SubSeq(s, 2, Len(s)))

\* Python's `sub in s` on strings
Contains(sub, s) ==
    \E i \in 1..(Len(s) - Len(sub) + 1) : SubSeq(s, i, i + Len(sub) - 1) = sub

disabled_classes == <<"disabled", "inactive", "not-available", "sold-out", "out-of-stock">>

\* the loop over disabled_classes: some token is a substring of the lower-cased class
HasDisabledClass(button_classes) ==
    \E k \in 1..Len(disabled_classes) : Contains(disabled_classes[k], lower(button_classes))

\* opacity is kept in hundredths: 0.5 is 50
OpacityThreshold == 50

\* class attribute values; "" is a missing attribute (get_attribute returns None)
ClassValues == {"", "add-to-cart", "add-to-cart DISABLED", "btn Sold-Out", "uninactive"}

OpacityValues == {0, 30, 49, 50, 100}

Buttons ==
    [enabled : BOOLEAN, class : ClassValues, opacity : OpacityValues,
     pointer_events : {"auto", "none"}, hover_ok : BOOLEAN]

\* which of the first four probes raises (0: none); hover has its own handler
Faults == 0..4

ProbeOrder == <<"is_enabled", "class", "opacity", "pointer_events", "hover">>

Verdict(result, n, raised) ==
    [result |-> result, probes |-> SubSeq(ProbeOrder, 1, n), raised |-> raised]

\* faulty variant of check_button_clickability: the opacity check is left out
check_button_clickability_without_opacity(b, fault) ==
    IF fault = 1 THEN Verdict(FALSE, 1, TRUE)
    ELSE IF ~b.enabled THEN Verdict(FALSE, 1, FALSE)
    ELSE IF fault = 2 THEN Verdict(FALSE, 2, TRUE)
    ELSE IF HasDisabledClass(b.class) THEN Verdict(FALSE, 2, FALSE)
    ELSE IF fault = 4 THEN Verdict(FALSE, 4, TRUE)
    ELSE IF b.pointer_events = "none" THEN Verdict(FALSE, 4, FALSE)
    ELSE IF b.hover_ok THEN Verdict(TRUE, 5, FALSE)
    ELSE Verdict(FALSE, 5, FALSE)

\* check_button_clickability(page, button): the return value, the probes made
\* in order, and whether the outer handler caught an exception
check_button_clickability(b, fault) ==
    IF fault = 1 THEN Verdict(FALSE, 1, TRUE)
    ELSE IF ~b.enabled THEN Verdict(FALSE, 1, FALSE)
    ELSE IF fault = 2 THEN Verdict(FALSE, 2, TRUE)
    ELSE IF HasDisabledClass(b.class) THEN Verdict(FALSE, 2, FALSE)
    ELSE IF fault = 3 THEN Verdict(FALSE, 3, TRUE)
    ELSE IF b.opacity < OpacityThreshold THEN Verdict(FALSE, 3, FALSE)
    ELSE IF fault = 4 THEN Verdict(FALSE, 4, TRUE)
    ELSE IF b.pointer_events = "none" THEN Verdict(FALSE, 4, FALSE)
    ELSE IF b.hover_ok THEN Verdict(TRUE, 5, FALSE)
    ELSE Verdict(FALSE, 5, FALSE)

----------------------------------------------------------------------------
(* check_product_availability *)

Stages == <<"launch", "new_page", "goto", "fill", "click", "wait_for">>

StageSet == {Stages[i] : i \in 1..Len(Stages)}

ExceptionKinds == {"TimeoutError", "Exception"}

\* faulty variant of the except clauses: a timeout is reported as out of stock
except_handler_timeout_returns(kind) ==
    CASE kind = "TimeoutError" ->
             [how |-> "return", value |-> FALSE, status |-> "Out of Stock", exit_code |-> -1]
      [] kind = "Exception" -> [how |-> "exit", value |-> FALSE, status |-> "", exit_code |-> 1]

\* faulty variant of the except clauses: an unexpected exception is reported as
\* out of stock
except_handler_exception_returns(kind) ==
    CASE kind = "TimeoutError" -> [how |-> "exit", value |-> FALSE, status |-> "", exit_code |-> 1]
      [] kind = "Exception" ->
             [how |-> "return", value |-> FALSE, status |-> "Out of Stock", exit_code |-> -1]

\* the except clauses: both print to stderr and call sys.exit(1)
except_handler(kind) ==
    CASE kind = "TimeoutError" -> [how |-> "exit", value |-> FALSE, status |-> "", exit_code |-> 1]
      [] kind = "Exception" -> [how |-> "exit", value |-> FALSE, status |-> "", exit_code |-> 1]

\* the try block up to and including the except clauses.  fail_stage names the
\* call that raises ("none": all of them return), browser whether the variable
\* browser
\* was assigned before that, v what check_button_clickability returns
try_except(fail_stage, fail_kind, v) ==
    IF fail_stage # "none"
    THEN except_handler(fail_kind)
             @@ [browser |-> fail_stage # "launch", closed |-> 0, raised |-> FALSE]
    ELSE [how |-> "return", value |-> v.result,
          status |-> IF v.result THEN "In Stock" ELSE "Out of Stock",
          exit_code |-> -1, browser |-> TRUE, closed |-> 0, raised |-> v.raised]

\* faulty variant of the finally clause: the browser is closed on return only
close_on_return_only(r) ==
    IF r.browser /\ r.how = "return" THEN [r EXCEPT !.closed = @ + 1] ELSE r

\* the finally clause: if browser: browser.close()
finally_close(r) ==
    IF r.browser THEN [r EXCEPT !.closed = @ + 1] ELSE r

\* check_product_availability(...) as a whole
check_product_availability(fail_stage, fail_kind, v) ==
    finally_close(try_except(fail_stage, fail_kind, v))

\* every outcome check_button_clickability has on some button
ClickVerdicts == {check_button_clickability(b, fault) : b \in Buttons, fault \in Faults}

----------------------------------------------------------------------------
(* main *)

\* faulty variant of was_available: a missing key counts as available
was_available_default_true(previous_status) ==
    IF ProductKey \in DOMAIN previous_status THEN previous_status[ProductKey] ELSE TRUE

\* faulty variant of was_available: status.json is read again at the decision
was_available_read_again(previous_status) ==
    IF ProductKey \in DOMAIN load_previous_status(file, TRUE)
    THEN load_previous_status(file, TRUE)[ProductKey]
    ELSE FALSE

\* previous_status.get("Lassi", False)
was_available(previous_status) ==
    IF ProductKey \in DOMAIN previous_status THEN previous_status[ProductKey] ELSE FALSE

\* faulty variant of should_notify: the previous status is ignored
should_notify_whenever_available(is_available, was) == is_available

\* the condition of the first branch: is_available and not was_available
should_notify(is_available, was) == is_available /\ ~was

\* faulty variant of count_notification: the return value of send_email is ignored
count_notification_always(notifications_sent, sent_ok) == notifications_sent + 1

\* if send_email(subject, body): notifications_sent += 1
count_notification(notifications_sent, sent_ok) ==
    IF sent_ok THEN notifications_sent + 1 ELSE notifications_sent

AnyButton == CHOOSE b \in Buttons : TRUE

IdleRun ==
    [pc |-> "idle", previous_status |-> EmptyMap, current_status |-> EmptyMap,
     is_available |-> FALSE, notifications_sent |-> 0, exit_code |-> -1,
     \* observations of this run
     attempts |-> 0, notify_result |-> "none", reached |-> 0, saves |-> 0,
     save_result |-> "none", launched |-> 0, closed |-> 0,
     fail_stage |-> "none", fail_kind |-> "none", eval_raised |-> FALSE,
     load_trouble |-> "none", loaded_before_saves |-> FALSE, file_at_start |-> NoFile,
     prev_reported |-> "none", prev_save |-> "none", prev_notify |-> "none"]

ClickIdle == [pc |-> "off", button |-> AnyButton, fault |-> 0,
              out |-> Verdict(FALSE, 0, FALSE)]

Init ==
    /\ file = NoFile
    /\ environ \in Envs
    /\ run = [p \in Procs |-> IdleRun]
    /\ runs = 0
    /\ click = ClickIdle

Finished(p) == run[p].pc \in {"idle", "done", "exited"}

\* what the invocation before this one in slot p leaves for the observer: the
\* last classification reported, whether the last save_status wrote the file,
\* and how the last notification went; an invocation that exited reported nothing
Carry(r) ==
    IF r.pc = "done"
    THEN [prev_reported |-> IF r.is_available THEN "avail" ELSE "unavail",
          prev_save |-> r.save_result, prev_notify |-> r.notify_result]
    ELSE [prev_reported |-> r.prev_reported, prev_save |-> r.prev_save,
          prev_notify |-> r.prev_notify]

\* the process starts
Begin(p) ==
    /\ Finished(p)
    /\ runs < MaxRuns
    /\ run' = [run EXCEPT ![p] =
                 [IdleRun EXCEPT !.pc = "test", !.file_at_start = file,
                                 !.prev_reported = Carry(run[p]).prev_reported,
                                 !.prev_save = Carry(run[p]).prev_save,
                                 !.prev_notify = Carry(run[p]).prev_notify]]
    /\ runs' = runs + 1
    /\ UNCHANGED <<file, click>>

\* an invocation while no other invocation is running; the environment may have
\* been configured anew since the last one
StartAlone(p) ==
    /\ \A q \in Procs \ {p} : run[q].pc = "idle"
    /\ environ' \in Envs
    /\ Begin(p)

\* an invocation whatever the other slot is doing, once per slot
StartAny(p) ==
    /\ run[p].pc = "idle"
    /\ environ' = environ
    /\ Begin(p)

\* main(): test_gmail_connection(), and the test mail when it succeeds
TestConnection(p) ==
    /\ run[p].pc = "test"
    /\ \E handshake \in Handshakes, transport \in Transports :
         LET success == test_gmail_connection(environ, handshake)
             mail == send_email(environ, transport)
         IN  run' = [run EXCEPT ![p].pc = "load",
                                ![p].reached = IF success THEN @ + mail.reached ELSE @]
    /\ UNCHANGED <<file, environ, runs, click>>

LoadTrouble(f, read_ok) ==
    IF ~f.exists THEN "missing"
    ELSE IF ~read_ok THEN "unreadable"
    ELSE IF f.text \notin {json_dump(m) : m \in StatusMaps} THEN "unparseable"
    ELSE "none"

\* main(): previous_status = load_previous_status(); current_status = {}; notifications_sent = 0
Load(p) ==
    /\ run[p].pc = "load"
    /\ \E read_ok \in BOOLEAN :
         run' = [run EXCEPT ![p].pc = "check",
                            ![p].previous_status = load_previous_status(file, read_ok),
                            ![p].current_status = EmptyMap,
                            ![p].notifications_sent = 0,
                            ![p].load_trouble = LoadTrouble(file, read_ok),
                            ![p].loaded_before_saves =
                                \A q \in Procs \ {p} : run[q].saves = 0]
    /\ UNCHANGED <<file, environ, runs, click>>

\* main(): is_available, status = check_product_availability(...)
Check(p) ==
    /\ run[p].pc = "check"
    /\ \E fail_stage \in StageSet \cup {"none"}, fail_kind \in ExceptionKinds,
          v \in ClickVerdicts :
         \* irrelevant inputs are pinned so that each case is drawn once
         /\ fail_stage = "none" => fail_kind = "Exception"
         /\ fail_stage # "none" => v = Verdict(FALSE, 1, FALSE)
         /\ LET r == check_product_availability(fail_stage, fail_kind, v)
            IN  run' = [run EXCEPT
                   ![p].pc = IF r.how = "exit" THEN "exited" ELSE "decide",
                   ![p].exit_code = r.exit_code,
                   ![p].is_available = r.value,
                   ![p].launched = IF fail_stage = "launch" THEN 0 ELSE 1,
                   ![p].closed = r.closed,
                   ![p].fail_stage = fail_stage,
                   ![p].fail_kind = IF fail_stage = "none" THEN "none" ELSE fail_kind,
                   ![p].eval_raised = r.raised]
    /\ UNCHANGED <<file, environ, runs, click>>

\* main(): current_status["Lassi"] = is_available and the if / elif / else
Decide(p) ==
    /\ run[p].pc = "decide"
    /\ \E transport \in Transports :
         LET was == was_available(run[p].previous_status)
             notify == should_notify(run[p].is_available, was)
             mail == send_email(environ, transport)
             result == IF ~notify THEN "none" ELSE IF mail.ok THEN "ok" ELSE "fail"
         IN  run' = [run EXCEPT
                   ![p].pc = "save",
                   ![p].current_status = OneMap(run[p].is_available),
                   ![p].attempts = IF notify THEN @ + 1 ELSE @,
                   ![p].reached = IF notify THEN @ + mail.reached ELSE @,
                   ![p].notify_result = result,
                   ![p].notifications_sent =
                       IF notify THEN count_notification(@, mail.ok) ELSE @]
    /\ UNCHANGED <<file, environ, runs, click>>

\* main(): save_status(current_status), the summary, normal exit
Save(p) ==
    /\ run[p].pc = "save"
    /\ \E outcome \in SaveOutcomes, partial \in Prefixes(json_dump(run[p].current_status)) :
         /\ file' = save_status(file, run[p].current_status, outcome, partial)
         /\ run' = [run EXCEPT ![p].pc = "done", ![p].exit_code = 0,
                               ![p].saves = @ + 1,
                               ![p].save_result = IF outcome = "ok" THEN "ok" ELSE "failed"]
    /\ UNCHANGED <<environ, runs, click>>

Steps(p) ==
    \/ TestConnection(p)
    \/ Load(p)
    \/ Check(p)
    \/ Decide(p)
    \/ Save(p)

\* invocations one after another
Next == \E p \in Procs : StartAlone(p) \/ Steps(p)

Spec == Init /\ [][Next]_vars

\* status.json as earlier invocations can have left it
FilesLeftByRuns ==
    {NoFile} \cup
    {[exists |-> TRUE, text |-> t] :
        t \in UNION {{json_dump(OneMap(b))} \cup Prefixes(json_dump(OneMap(b))) : b \in BOOLEAN}}

InitOverlap ==
    /\ file \in FilesLeftByRuns
    /\ environ \in Envs
    /\ run = [p \in Procs |-> IdleRun]
    /\ runs = 0
    /\ click = ClickIdle

\* two invocations that may overlap
NextOverlap == \E p \in Procs : StartAny(p) \/ Steps(p)

SpecOverlap == InitOverlap /\ [][NextOverlap]_vars

----------------------------------------------------------------------------
(* check_button_clickability on its own, over every button *)

InitClick ==
    /\ file = NoFile
    /\ environ \in Envs
    /\ run = [p \in Procs |-> IdleRun]
    /\ runs = 0
    /\ \E b \in Buttons, fault \in Faults :
         click = [pc |-> "call", button |-> b, fault |-> fault,
                  out |-> Verdict(FALSE, 0, FALSE)]

Classify ==
    /\ click.pc = "call"
    /\ click' = [click EXCEPT !.pc = "returned",
                              !.out = check_button_clickability(click.button, click.fault)]
    /\ UNCHANGED <<file, environ, run, runs>>

NextClick == Classify

SpecClick == InitClick /\ [][NextClick]_vars

----------------------------------------------------------------------------
(* Properties *)

\* the check has returned to main() and the if / elif / else has been executed
Decided(p) == run[p].pc \in {"save", "done"}

\* check_product_availability has returned to main()
Returned(p) == run[p].pc \in {"decide", "save", "done"}

\* the loaded mapping holds the key with value True
StoredAvailable(m) == ProductKey \in DOMAIN m /\ m[ProductKey]

C2_NoMailOnSecondUnavailable ==
    \A p \in Procs :
        (Decided(p) /\ ~run[p].is_available /\ run[p].prev_reported = "unavail") =>
            run[p].reached = 0

\* C3: within one run the notification is attempted exactly once when
\* is_available holds and the loaded store does not hold True for the product,
\* and not at all otherwise; notifications_sent counts only a successful attempt.
C3_NotifyDecision ==
    \A p \in Procs :
        /\ ~Decided(p) => run[p].attempts = 0 /\ run[p].notifications_sent = 0
        /\ Decided(p) =>
            /\ run[p].attempts =
                 (IF run[p].is_available /\ ~StoredAvailable(run[p].previous_status)
                  THEN 1 ELSE 0)
            /\ run[p].notifications_sent = (IF run[p].notify_result = "ok" THEN 1 ELSE 0)
            /\ (run[p].notify_result = "none") <=> (run[p].attempts = 0)

\* C3 witness: a run found the product available, not stored as available,
\* and its one attempt succeeded and was counted.
C3_Witness ==
    \E p \in Procs :
        /\ Decided(p) /\ run[p].is_available
        /\ ~StoredAvailable(run[p].previous_status)
        /\ run[p].attempts = 1 /\ run[p].notifications_sent = 1

\* C4: when status.json is missing, unreadable or unparseable, the load yields
\* the empty mapping and main() goes on; a run that then reports available
\* attempts the notification.
C4_FailOpen ==
    \A p \in Procs :
        run[p].load_trouble # "none" =>
            /\ run[p].pc \notin {"idle", "test", "load"}
            /\ run[p].previous_status = EmptyMap
            /\ (Decided(p) /\ run[p].is_available) => run[p].attempts = 1

\* C4 witness: a cut-off status.json was loaded as the empty mapping and the
\* available product was notified.
C4_Witness ==
    \E p \in Procs :
        /\ Decided(p) /\ run[p].load_trouble = "unparseable"
        /\ run[p].is_available /\ run[p].attempts = 1

\* C5: when waiting for the 'Add to Cart' button times out, the process exits
\* with status 1, save_status is not called, status.json is as it was when the
\* run started, and no availability notification is attempted.
C5_TimeoutExitsWithoutSaving ==
    \A p \in Procs :
        (run[p].fail_stage = "wait_for" /\ run[p].fail_kind = "TimeoutError") =>
            /\ run[p].pc = "exited" /\ run[p].exit_code = 1
            /\ run[p].saves = 0
            /\ file = run[p].file_at_start
            /\ run[p].attempts = 0

\* C5 witness: the button never appeared in a run that started with a
\* status.json written by an earlier run.
C5_Witness ==
    \E p \in Procs :
        /\ run[p].fail_stage = "wait_for" /\ run[p].fail_kind = "TimeoutError"
        /\ run[p].pc = "exited"
        /\ file.exists /\ json_load(file.text).ok

Signal(b, i) ==
    CASE i = 1 -> ~b.enabled
      [] i = 2 -> HasDisabledClass(b.class)
      [] i = 3 -> b.opacity < OpacityThreshold
      [] i = 4 -> b.pointer_events = "none"
      [] i = 5 -> ~b.hover_ok

SignalIndices == 1..Len(ProbeOrder)

\* the first signal that is true, Len(ProbeOrder) + 1 when none is
FirstSignal(b) ==
    IF \E i \in SignalIndices : Signal(b, i)
    THEN CHOOSE i \in SignalIndices : Signal(b, i) /\ \A j \in 1..(i - 1) : ~Signal(b, j)
    ELSE Len(ProbeOrder) + 1

\* C7 as stated: the probes are made in the order (a) to (e) up to the first
\* signal that is true, the button is available exactly when no signal is
\* true, and opacity 0.3 gives unavailable.
C7_SignalsInOrder ==
    click.pc = "returned" =>
        LET b == click.button
            first == FirstSignal(b)
        IN  /\ click.out.probes =
                 SubSeq(ProbeOrder, 1, IF first > Len(ProbeOrder) THEN Len(ProbeOrder) ELSE first)
            /\ click.out.result <=> (first > Len(ProbeOrder))
            /\ b.opacity = 30 => ~click.out.result

\* C7 as amended: that holds when none of the probes (a) to (d) raises; a probe
\* that raises, at or before the first true signal, ends the evaluation with
\* unavailable.  Opacity 0.3 gives unavailable in every case.
C7_SignalsInOrderUnlessRaised ==
    click.pc = "returned" =>
        LET b == click.button
            first == FirstSignal(b)
        IN  /\ ~click.out.raised =>
                 click.out.probes =
                   SubSeq(ProbeOrder, 1, IF first > Len(ProbeOrder) THEN Len(ProbeOrder) ELSE first)
            /\ click.out.raised =>
                 /\ click.out.probes = SubSeq(ProbeOrder, 1, click.fault)
                 /\ click.fault <= first
            /\ click.out.result <=> (first > Len(ProbeOrder) /\ ~click.out.raised)
            /\ b.opacity = 30 => ~click.out.result

\* C7 witness: an enabled button without a disabled class and with opacity 0.3
\* is classified unavailable at the third probe.
C7_Witness ==
    /\ click.pc = "returned"
    /\ click.button.enabled /\ ~HasDisabledClass(click.button.class)
    /\ click.button.opacity = 30
    /\ ~click.out.raised
    /\ click.out.probes = <<"is_enabled", "class", "opacity">>
    /\ ~click.out.result

\* C8 as stated: an exception in launch, navigation, pincode entry or pincode
\* selection, or inside the clickability evaluation, gives an unavailable
\* result and the run goes on; only the button never appearing exits.
C8_ExceptionsBecomeUnavailable ==
    \A p \in Procs :
        /\ run[p].fail_stage \in {"launch", "new_page", "goto", "fill", "click"} =>
              /\ run[p].pc # "exited"
              /\ ~run[p].is_available
        /\ run[p].eval_raised => Returned(p) /\ ~run[p].is_available
        /\ run[p].pc = "exited" =>
              run[p].fail_stage = "wait_for" /\ run[p].fail_kind = "TimeoutError"

\* C8 as amended: only an exception inside the clickability evaluation gives an
\* unavailable result with the run going on; an exception of any kind raised by
\* any call of check_product_availability itself exits with status 1, and
\* nothing else does.
C8_OnlyEvaluationErrorsBecomeUnavailable ==
    \A p \in Procs :
        /\ run[p].fail_stage # "none" => run[p].pc = "exited" /\ run[p].exit_code = 1
        /\ run[p].eval_raised => Returned(p) /\ ~run[p].is_available
        /\ run[p].pc = "exited" => run[p].fail_stage # "none"

\* C8 witness: navigation raised an exception that is no timeout and the
\* process exited with status 1.
C8_Witness ==
    \E p \in Procs :
        /\ run[p].fail_stage = "goto" /\ run[p].fail_kind = "Exception"
        /\ run[p].pc = "exited" /\ run[p].exit_code = 1

\* C9: once check_product_availability is left, by return or by exit, a
\* launched browser has been closed exactly once and nothing else was closed.
C9_BrowserClosedOnce ==
    \A p \in Procs :
        /\ run[p].pc \in {"decide", "save", "done", "exited"} =>
              run[p].closed = run[p].launched
        /\ run[p].pc \in {"idle", "test", "load", "check"} =>
              run[p].launched = 0 /\ run[p].closed = 0

\* C9 witness: the process exited after the browser was launched, and the
\* browser was closed once.
C9_Witness ==
    \E p \in Procs :
        /\ run[p].pc = "exited" /\ run[p].fail_stage = "wait_for"
        /\ run[p].launched = 1 /\ run[p].closed = 1

\* status.json recorded the product as unavailable when the run started
StartedFromUnavailable(p) ==
    run[p].file_at_start = [exists |-> TRUE, text |-> json_dump(OneMap(FALSE))]

\* C10: when two invocations both load status.json, recording the product as
\* unavailable, before either saves, and both find the product available, both
\* attempt the notification.
C10_OverlappingRunsBothNotify ==
    \A p \in Procs : \A q \in Procs \ {p} :
        (/\ Decided(p) /\ Decided(q)
         /\ run[p].loaded_before_saves /\ run[q].loaded_before_saves
         /\ StartedFromUnavailable(p) /\ StartedFromUnavailable(q)
         /\ run[p].is_available /\ run[q].is_available) =>
            run[p].attempts = 1 /\ run[q].attempts = 1

\* C10 witness: two overlapping invocations have each attempted the
\* notification for the one change from unavailable to available.
C10_Witness ==
    /\ \A p \in Procs :
          /\ run[p].pc = "done" /\ run[p].loaded_before_saves
          /\ StartedFromUnavailable(p)
          /\ run[p].load_trouble = "none"
          /\ run[p].is_available /\ run[p].attempts = 1
    /\ \E p \in Procs : run[p].notifications_sent = 1

====
